---- MODULE Spec2Model ----
(***************************************************************************)
(* clay.application.App3D (src/src/application.js): the frame handler with *)
(* its mark-and-sweep resource tracker, and the promise based loaders      *)
(* loadTexture, createMaterial and loadModel.                              *)
(***************************************************************************)
EXTENDS Integers, Sequences, FiniteSets, TLC

\* ------------------------------------------------------------------ bounds
NumTex == 2
NumGeo == 2
MaxQueue == 2
MaxTransparent == 1
MaxLights == 1
MaxFrames == 3
MaxAppFrames == 2

\* ------------------------------------------------------------ the universe
Textures == {<<"texture", i>> : i \in 1..NumTex}
Geometries == {<<"geometry", i>> : i \in 1..NumGeo}
Resources == Textures \cup Geometries
NoResource == <<"none", 0>>
\* a uniform value (or array entry) that is not an instance of Texture
NotTexture == <<"number", 0>>
\* the value of resource.__used__ before updateUsed ever touched the resource
Undefined == 0 - 1
FrameDeltas == {16}

\* material.uniforms[name].value: a Texture, an Array, or anything else
UTex(t) == [isArray |-> FALSE, val |-> t, items |-> <<>>]
UArr(s) == [isArray |-> TRUE, val |-> NotTexture, items |-> s]
UNum == UTex(NotTexture)

\* the uniform lists of the materials the application puts on its meshes
MaterialPool ==
    {<<UNum>>}
        \cup {<<UTex(t)>> : t \in Textures}
        \cup {<<UArr(<<NotTexture, t>>), UTex(t)>> : t \in Textures}

Renderables == [geometry : Geometries, uniforms : MaterialPool]
LightPool == [cubemap : Textures \cup {NoResource}]

VARIABLES
    opaqueList, transparentList, lights,   \* scene.opaqueList / transparentList / lights
    texState,                              \* load-state of every texture
    gTexturesList, gGeometriesList,        \* the snapshot of the last completed sweep
    used,                                  \* resource.__used__
    gFrameTime, gElapsedTime,
    frame,                                 \* number of frame events so far
    disposeLog,                            \* the dispose calls of the last frame, in order
    thrown,                                \* the last frame handler ended in an exception
    everThrown,
    refPrev, refNow,                       \* resources the scene referenced at the sweep before last / last
    pendingFail,                           \* dispose was called in a failed sweep, not referenced since
    retried,                               \* resources of pendingFail the last frame disposed again
    stepLog,                               \* the steps of the last frame handler, in order
    renderSaw, sweepSaw,                   \* the queues as render / as _collectResources read them
    texListeners,                          \* the success / error callbacks registered on every texture
    texImage, texDynamic,                  \* texture.image / texture.dynamic
    nextTex,                               \* number of textures constructed so far
    promises, microtasks,                  \* every promise created, and the promise jobs not yet run
    ltCalls,                               \* the loadTexture calls made: source, texture, promise
    material, matConfig,                   \* the material createMaterial returned, its config object
    loaderState, modelOpts, modelTextures, \* the GLTF loader of the loadModel call, opts, result.textures
    modelPromise, allRemaining,            \* the promise loadModel returned / elements Promise.all waits for
    rootAdded, clipsAdded,                 \* scene.add(result.rootNode) / timeline.addClip calls made
    syncCalls,                             \* the loadTextureSync calls made: source, texture returned
    loopSaw,                               \* frameTime / elapsedTime as the loop callback read them
    appLoop,                               \* appNS.loop is supplied
    running,                               \* the timeline is started and not stopped
    disposeSteps, sceneDisposed,           \* the steps of app.dispose() / what disposeScene released
    meshAdded, removed,                    \* createCube added its mesh / nodes taken out of the scene since
    appWidth, appHeight,                   \* appNS.width / appNS.height
    domHeight, clientWidth, clientHeight,  \* dom.height / dom.clientWidth / dom.clientHeight
    gWidth, gHeight, rendererSize,         \* the size the renderer was last given
    resizeArgs                             \* the arguments of the last app.resize call

sceneVars == <<opaqueList, transparentList, lights>>
trackerVars == <<gTexturesList, gGeometriesList, used, gFrameTime, gElapsedTime, frame,
                 disposeLog, thrown, everThrown, refPrev, refNow, pendingFail, retried,
                 stepLog, renderSaw, sweepSaw, loopSaw>>
heapVars == <<texState, texListeners, texImage, texDynamic, nextTex, promises, microtasks,
              material, allRemaining, rootAdded, clipsAdded>>
callVars == <<ltCalls, matConfig, loaderState, modelOpts, modelTextures, modelPromise>>
sizeVars == <<appWidth, appHeight, domHeight, clientWidth, clientHeight, gWidth, gHeight,
              rendererSize, resizeArgs>>
appVars == <<syncCalls, appLoop, running, disposeSteps, sceneDisposed, meshAdded, removed, sizeVars>>
vars == <<sceneVars, trackerVars, heapVars, callVars, appVars>>

\* a width or height that is not given: undefined, which || treats as it treats 0
NotGiven == 0
\* a || b on widths and heights
Or(a, b) == IF a # NotGiven THEN a ELSE b

\* ----------------------------------------------------------------- helpers
Range(s) == {s[i] : i \in DOMAIN s}
Count(r, s) == Cardinality({i \in DOMAIN s : s[i] = r})
RemoveAt(s, i) == [j \in 1..(Len(s) - 1) |-> IF j < i THEN s[j] ELSE s[j + 1]]

\* the textures a uniform value holds
UniformTextures(u) == IF u.isArray THEN Range(u.items) \cap Textures ELSE {u.val} \cap Textures
RenderableResources(r) ==
    {r.geometry} \cup UNION {UniformTextures(r.uniforms[n]) : n \in DOMAIN r.uniforms}
\* every resource reachable from the two queues and the lights
Referenced(op, tr, li) ==
    UNION {RenderableResources(op[i]) : i \in DOMAIN op}
        \cup UNION {RenderableResources(tr[i]) : i \in DOMAIN tr}
        \cup ({li[k].cubemap : k \in DOMAIN li} \cap Textures)

\* --------------------------------------------------------- the usage tracker
markUsed(u, resourceList) ==
    [r \in DOMAIN u |-> IF r \in Range(resourceList) THEN 0 ELSE u[r]]

\* updateUsed without its increment: the counter of a visited resource stays 0
updateUsed_noIncrement(c, resource, list) ==
    [c EXCEPT ![list] = Append(@, resource),
              !.used[resource] = (IF @ = Undefined THEN 0 ELSE @)]

\* c is the state of one _collectResources call: the two new lists and __used__
updateUsed(c, resource, list) ==
    [c EXCEPT ![list] = Append(@, resource),
              !.used[resource] = (IF @ = Undefined THEN 0 ELSE @) + 1]

RECURSIVE trackArray(_, _, _)
trackArray(c, val, k) ==
    IF k > Len(val) THEN c
    ELSE trackArray(IF val[k] \in Textures THEN updateUsed(c, val[k], "textures") ELSE c,
                    val, k + 1)

RECURSIVE trackUniforms(_, _, _)
trackUniforms(c, uniforms, n) ==
    IF n > Len(uniforms) THEN c
    ELSE LET u == uniforms[n]
             c1 == IF ~u.isArray /\ u.val \in Textures THEN updateUsed(c, u.val, "textures")
                   ELSE IF u.isArray THEN trackArray(c, u.items, 1)
                   ELSE c
         IN trackUniforms(c1, uniforms, n + 1)

RECURSIVE trackQueue(_, _, _)
trackQueue(c, queue, i) ==
    IF i > Len(queue) THEN c
    ELSE LET renderable == queue[i]
             c1 == updateUsed(c, renderable.geometry, "geometries")
         IN trackQueue(trackUniforms(c1, renderable.uniforms, 1), queue, i + 1)

RECURSIVE trackLights(_, _, _)
trackLights(c, ls, k) ==
    IF k > Len(ls) THEN c
    ELSE trackLights(IF ls[k].cubemap # NoResource
                     THEN updateUsed(c, ls[k].cubemap, "textures") ELSE c,
                     ls, k + 1)

collectResources(u, op, tr, li) ==
    LET c0 == [textures |-> <<>>, geometries |-> <<>>, used |-> u]
        c1 == trackQueue(c0, op, 1)
        c2 == trackQueue(c1, tr, 1)
    IN trackLights(c2, li, 1)

\* checkAndDispose without its test of __used__: the whole old snapshot is disposed
RECURSIVE checkAndDispose_unconditional(_, _, _, _)
checkAndDispose_unconditional(d, u, resourceList, i) ==
    IF d.thrown \/ i > Len(resourceList) THEN d
    ELSE checkAndDispose_unconditional([d EXCEPT !.log = Append(@, resourceList[i]),
                                                 !.thrown = (resourceList[i] = d.thrower)],
                                       u, resourceList, i + 1)

\* d: the dispose calls so far, whether one threw, and the resource whose dispose throws
RECURSIVE checkAndDispose(_, _, _, _)
checkAndDispose(d, u, resourceList, i) ==
    IF d.thrown \/ i > Len(resourceList) THEN d
    ELSE IF u[resourceList[i]] <= 0
         THEN checkAndDispose([d EXCEPT !.log = Append(@, resourceList[i]),
                                        !.thrown = (resourceList[i] = d.thrower)],
                              u, resourceList, i + 1)
         ELSE checkAndDispose(d, u, resourceList, i + 1)

\* ----------------------------------------------------------- the frame handler
\* what the application's loop callback may do to the scene in one frame
LoopEdits(op, tr, li) ==
    LET s == [opaqueList |-> op, transparentList |-> tr, lights |-> li]
    IN {s}
        \cup {[s EXCEPT !.opaqueList = Append(op, r)] : r \in {x \in Renderables : Len(op) < MaxQueue}}
        \cup {[s EXCEPT !.transparentList = Append(tr, r)] :
                r \in {x \in Renderables : Len(tr) < MaxTransparent}}
        \cup {[s EXCEPT !.opaqueList = RemoveAt(op, i)] : i \in DOMAIN op}
        \cup {[s EXCEPT !.transparentList = RemoveAt(tr, i)] : i \in DOMAIN tr}
        \cup {[s EXCEPT !.lights = Append(li, l)] : l \in {x \in LightPool : Len(li) < MaxLights}}
        \cup {[s EXCEPT !.lights = RemoveAt(li, k)] : k \in DOMAIN li}
        \cup {[opaqueList |-> <<>>, transparentList |-> <<>>, lights |-> <<>>]}

\* f: the application's state as the handler runs; each step appends its name
stepLoop(f, edit) ==
    [f EXCEPT !.opaqueList = edit.opaqueList, !.transparentList = edit.transparentList,
              !.lights = edit.lights, !.stepLog = Append(@, "loop"),
              !.loopSaw = <<f.gFrameTime, f.gElapsedTime>>]

doRender(f) ==
    [f EXCEPT !.renderSaw = <<f.opaqueList, f.transparentList, f.lights>>,
              !.stepLog = Append(@, "render")]

stepMark(f) ==
    [f EXCEPT !.used = markUsed(markUsed(f.used, f.gTexturesList), f.gGeometriesList),
              !.stepLog = Append(@, "markUsed")]

stepCollect(f) ==
    LET c == collectResources(f.used, f.opaqueList, f.transparentList, f.lights)
    IN [f EXCEPT !.used = c.used, !.newTexturesList = c.textures,
                 !.newGeometriesList = c.geometries,
                 !.sweepSaw = <<f.opaqueList, f.transparentList, f.lights>>,
                 !.stepLog = Append(@, "collect")]

stepDispose(f, thrower) ==
    LET d0 == [log |-> <<>>, thrown |-> FALSE, thrower |-> thrower]
        d1 == checkAndDispose(d0, f.used, f.gTexturesList, 1)
        d2 == checkAndDispose(d1, f.used, f.gGeometriesList, 1)
    IN [f EXCEPT !.disposeLog = d2.log, !.thrown = d2.thrown,
                 !.stepLog = Append(@, "dispose")]

stepSwap(f) ==
    IF f.thrown THEN f
    ELSE [f EXCEPT !.gTexturesList = f.newTexturesList,
                   !.gGeometriesList = f.newGeometriesList,
                   !.stepLog = Append(@, "swap")]

\* the handler with the render call ahead of the loop callback
onFrame_renderFirst(f, frameTime, edit, thrower) ==
    LET f0 == [f EXCEPT !.gFrameTime = frameTime, !.gElapsedTime = @ + frameTime,
                        !.stepLog = <<>>]
        f1 == doRender(f0)
        f2 == stepLoop(f1, edit)
        f3 == stepMark(f2)
        f4 == stepCollect(f3)
        f5 == stepDispose(f4, thrower)
    IN stepSwap(f5)

\* the handler resetting the counters after the traversal instead of before it
onFrame_markAfterCollect(f, frameTime, edit, thrower) ==
    LET f0 == [f EXCEPT !.gFrameTime = frameTime, !.gElapsedTime = @ + frameTime,
                        !.stepLog = <<>>]
        f1 == stepLoop(f0, edit)
        f2 == doRender(f1)
        f3 == stepCollect(f2)
        f4 == stepMark(f3)
        f5 == stepDispose(f4, thrower)
    IN stepSwap(f5)

onFrame(f, frameTime, edit, thrower) ==
    LET f0 == [f EXCEPT !.gFrameTime = frameTime, !.gElapsedTime = @ + frameTime,
                        !.stepLog = <<>>]
        f1 == stepLoop(f0, edit)
        f2 == doRender(f1)
        f3 == stepMark(f2)
        f4 == stepCollect(f3)
        f5 == stepDispose(f4, thrower)
    IN stepSwap(f5)

\* the handlers of the timeline's frame event: registered under appNS.loop only
frameHandlers_always(loop) == <<"onFrame">>

frameHandlers(loop) == IF loop THEN <<"onFrame">> ELSE <<>>

\* app.dispose() without its gTimeline.stop()
dispose_noStop(a, hasCallback, sceneResources) ==
    [a EXCEPT !.disposeSteps = (IF hasCallback THEN <<"appNS.dispose">> ELSE <<>>)
                                    \o <<"disposeScene", "clear">>,
              !.sceneDisposed = sceneResources]

\* a: the timeline and what dispose did; hasCallback: appNS.dispose is supplied
dispose(a, hasCallback, sceneResources) ==
    [a EXCEPT !.disposeSteps = (IF hasCallback THEN <<"appNS.dispose">> ELSE <<>>)
                                    \o <<"stop", "disposeScene", "clear">>,
              !.running = FALSE,
              !.sceneDisposed = sceneResources]

\* ------------------------------------------------- textures and promises
\* h is the heap the loaders work on: the fields of heapVars
NoValue == <<"undefined", 0>>
NoHandler == <<"none", 0>>
Src(kind) == <<kind, 0>>
Absent == Src("absent")
\* what loadTexture / loadTextureSync may be handed
SourceKinds == {"string", "image", "canvas", "video", "other"}

isImageLikeElement(val) == val[1] \in {"image", "canvas", "video"}

\* Texture2D.isRenderable(): the image is there and decoded
isRenderable(h, t) == h.texState[t] = "ready"

newPromise(h) ==
    [h EXCEPT !.promises = Append(@, [state |-> "pending", value |-> NoValue,
                                      reactions |-> <<>>, handled |-> FALSE, calls |-> 0])]

\* resolve(v) or reject() of promise p: only the first call settles it
settle(h, p, st, v) ==
    IF h.promises[p].state # "pending" THEN [h EXCEPT !.promises[p].calls = @ + 1]
    ELSE LET rs == h.promises[p].reactions
         IN [h EXCEPT !.promises[p].state = st, !.promises[p].value = v,
                      !.promises[p].reactions = <<>>, !.promises[p].calls = @ + 1,
                      !.microtasks = @ \o [i \in DOMAIN rs |->
                                            [reaction |-> rs[i], state |-> st, value |-> v]]]

\* p.then(onFulfilled, onRejected); the promise it returns is Len(h.promises) + 1
promiseThen(h, p, onFulfilled, onRejected) ==
    LET r == [onFulfilled |-> onFulfilled, onRejected |-> onRejected,
              child |-> Len(h.promises) + 1]
        h1 == [newPromise(h) EXCEPT !.promises[p].handled = TRUE]
    IN IF h.promises[p].state = "pending"
       THEN [h1 EXCEPT !.promises[p].reactions = Append(@, r)]
       ELSE [h1 EXCEPT !.microtasks = Append(@, [reaction |-> r, state |-> h.promises[p].state,
                                                value |-> h.promises[p].value])]

\* texture.trigger(event): the callbacks registered for the event, in order
RECURSIVE trigger(_, _, _, _)
trigger(h, t, listeners, i) ==
    IF i > Len(listeners) THEN h
    ELSE LET l == listeners[i]
         IN trigger(IF l[1] = "resolve" THEN settle(h, l[2], "fulfilled", t)
                    ELSE settle(h, l[2], "rejected", NoValue),
                    t, listeners, i + 1)

\* loadTextureSync attaching the source without looking at what it is
loadTextureSync_attachAny(h, urlOrImg) ==
    [h EXCEPT !.nextTex = @ + 1,
              !.texState[<<"texture", h.nextTex + 1>>] = "empty",
              !.texImage[<<"texture", h.nextTex + 1>>] = urlOrImg[1],
              !.texDynamic[<<"texture", h.nextTex + 1>>] = (urlOrImg[1] = "video")]

loadTextureSync(h, urlOrImg) ==
    LET texture == <<"texture", h.nextTex + 1>>
        h1 == [h EXCEPT !.nextTex = @ + 1, !.texState[texture] = "empty",
                        !.texImage[texture] = "none", !.texDynamic[texture] = FALSE]
    IN IF urlOrImg[1] = "string"
       THEN [h1 EXCEPT !.texState[texture] = "pending", !.texImage[texture] = "loading"]
       ELSE IF isImageLikeElement(urlOrImg)
            THEN [h1 EXCEPT !.texImage[texture] = urlOrImg[1],
                            !.texDynamic[texture] = (urlOrImg[1] = "video"),
                            !.texState[texture] = "ready"]
            ELSE h1

\* loadTexture resolving whatever the texture's state
loadTexture_resolveAtOnce(h, urlOrImg) ==
    settle(loadTextureSync(newPromise(h), urlOrImg), Len(h.promises) + 1, "fulfilled",
           <<"texture", h.nextTex + 1>>)

\* the promise it returns is Len(h.promises) + 1, the texture <<"texture", h.nextTex + 1>>
loadTexture(h, urlOrImg) ==
    LET p == Len(h.promises) + 1
        texture == <<"texture", h.nextTex + 1>>
        h1 == loadTextureSync(newPromise(h), urlOrImg)
    IN IF ~isRenderable(h1, texture)
       THEN [h1 EXCEPT !.texListeners[texture].success = Append(@, <<"resolve", p>>),
                       !.texListeners[texture].error = Append(@, <<"reject", p>>)]
       ELSE settle(h1, p, "fulfilled", texture)

\* ------------------------------------------------------------ createMaterial
\* the uniforms the shader declares, and the keys a config may carry
UniformType == [diffuseMap |-> "t", normalMap |-> "t", color |-> "3f"]
UniformNames == DOMAIN UniformType
ConfigKeys == <<"diffuseMap", "normalMap", "color", "transparent">>
DefaultValue == Src("default")
\* base, promiseBase: the textures / promises constructed before the material was
NewMaterial ==
    [created |-> FALSE, uniforms |-> [k \in UniformNames |-> DefaultValue],
     atReturn |-> [k \in UniformNames |-> DefaultValue],
     depthMask |-> TRUE, transparent |-> FALSE, base |-> 0, promiseBase |-> 0]
EmptyConfig == [k \in Range(ConfigKeys) \cup {"depthMask"} |-> Absent]

\* a config entry that createMaterial hands to loadTexture
IsTextureEntry(cfg, key) ==
    /\ key \in UniformNames /\ cfg[key] # Absent
    /\ (UniformType[key] = "t" \/ isImageLikeElement(cfg[key]))
Configs ==
    {cfg \in [diffuseMap : {Absent, Src("string"), Src("image"), Src("other")},
              normalMap : {Absent, Src("string")},
              color : {Absent, Src("number"), Src("canvas")},
              transparent : {Absent, Src("true"), Src("false")},
              depthMask : {Absent}] :
        Cardinality({k \in UniformNames : IsTextureEntry(cfg, k)}) <= NumTex}

setUniform(h, key, val) == [h EXCEPT !.material.uniforms[key] = val]

RECURSIVE configLoop(_, _, _)
configLoop(h, cfg, i) ==
    IF i > Len(ConfigKeys) THEN h
    ELSE LET key == ConfigKeys[i]
             val == cfg[key]
         IN IF val = Absent \/ key \notin UniformNames THEN configLoop(h, cfg, i + 1)
            ELSE IF UniformType[key] = "t" \/ isImageLikeElement(val)
                 THEN configLoop(promiseThen(loadTexture(h, val), Len(h.promises) + 1,
                                             <<"setter", i>>, NoHandler),
                                 cfg, i + 1)
                 ELSE configLoop(setUniform(h, key, val), cfg, i + 1)

\* lines 335-338 write to the config object, not to the material
configTransparent(cfg) ==
    IF cfg["transparent"] = Src("true")
    THEN [cfg EXCEPT !["depthMask"] = Src("false"), !["transparent"] = Src("true")]
    ELSE cfg

createMaterial(h, cfg) ==
    LET h1 == configLoop([h EXCEPT !.material = [NewMaterial EXCEPT !.created = TRUE,
                                                                    !.base = h.nextTex,
                                                                    !.promiseBase = Len(h.promises)]],
                         cfg, 1)
    IN [h1 EXCEPT !.material.atReturn = h1.material.uniforms]

\* ----------------------------------------------------------------- loadModel
NumClips == 2
ModelResult == <<"result", 1>>

\* afterLoad registering the clips whatever opts.autoPlayAnimation is
afterLoad_clipsAlways(h, call) ==
    settle([h EXCEPT !.rootAdded = @ + 1, !.clipsAdded = @ + NumClips],
           call.promise, "fulfilled", ModelResult)

\* call: what the closures of one loadModel call capture, its opts and its promise
afterLoad(h, call) ==
    settle([h EXCEPT !.rootAdded = @ + 1,
                     !.clipsAdded = @ + (IF call.opts.autoPlayAnimation THEN NumClips ELSE 0)],
           call.promise, "fulfilled", ModelResult)

\* the map with texture.error(reject) of the outer promise in place of texture.error(resolve)
RECURSIVE mapTextures_errorRejects(_, _, _)
mapTextures_errorRejects(h, textures, i) ==
    IF i > Len(textures) THEN h
    ELSE LET texture == textures[i]
             p == Len(h.promises) + 1
             h1 == newPromise(h)
         IN mapTextures_errorRejects(
                IF isRenderable(h, texture) THEN settle(h1, p, "fulfilled", texture)
                ELSE [h1 EXCEPT !.texListeners[texture].success = Append(@, <<"resolve", p>>),
                                !.texListeners[texture].error = Append(@, <<"reject", modelPromise>>)],
                textures, i + 1)

\* result.textures.map(...): one promise per texture
RECURSIVE mapTextures(_, _, _)
mapTextures(h, textures, i) ==
    IF i > Len(textures) THEN h
    ELSE LET texture == textures[i]
             p == Len(h.promises) + 1
             h1 == newPromise(h)
         IN mapTextures(IF isRenderable(h, texture) THEN settle(h1, p, "fulfilled", texture)
                        ELSE [h1 EXCEPT !.texListeners[texture].success = Append(@, <<"resolve", p>>),
                                        !.texListeners[texture].error = Append(@, <<"resolve", p>>)],
                        textures, i + 1)

\* Promise.all over the promises first + 1 .. first + n; it returns promise first + n + 1
RECURSIVE allSubscribe(_, _, _, _)
allSubscribe(h, first, n, i) ==
    IF i > n THEN h
    ELSE allSubscribe(promiseThen(h, first + i, <<"allResolve", first + n + 1>>,
                                  <<"allReject", first + n + 1>>),
                      first, n, i + 1)

promiseAll(h, first, n) ==
    LET all == first + n + 1
        h1 == [newPromise(h) EXCEPT !.allRemaining = n]
    IN IF n = 0 THEN settle(h1, all, "fulfilled", NoValue)
       ELSE allSubscribe(h1, first, n, 1)

\* the callback without its test of opts.waitTextureLoaded
onLoaderSuccess_immediate(h, call, textures) == afterLoad(h, call)

\* the callback given to loader.success (lines 509-530)
onLoaderSuccess(h, call, textures) ==
    IF ~call.opts.waitTextureLoaded THEN afterLoad(h, call)
    ELSE LET first == Len(h.promises)
             n == Len(textures)
             h1 == promiseAll(mapTextures(h, textures, 1), first, n)
             all == first + n + 1
             h2 == promiseThen(h1, all, <<"afterLoad", 0>>, NoHandler)
         IN promiseThen(h2, all + n + 1, NoHandler, <<"afterLoad", 0>>)

\* the callback given to loader.error (lines 531-533)
onLoaderError(h, call) == settle(h, call.promise, "rejected", NoValue)

\* ------------------------------------------------------------ promise jobs
runHandler(h, handler, value, call) ==
    IF handler[1] = "setter" THEN setUniform(h, ConfigKeys[handler[2]], value)
    ELSE IF handler[1] = "afterLoad" THEN afterLoad(h, call)
    ELSE IF handler[1] = "allResolve"
         THEN IF h.allRemaining = 1
              THEN settle([h EXCEPT !.allRemaining = 0], handler[2], "fulfilled", NoValue)
              ELSE [h EXCEPT !.allRemaining = @ - 1]
    ELSE settle(h, handler[2], "rejected", value)

\* the job dropped once the timeline is stopped: a completion cancelled by dispose()
runMicrotask_unlessStopped(h, call) ==
    IF ~running THEN [h EXCEPT !.microtasks = Tail(@)]
    ELSE LET m == Head(h.microtasks)
             handler == IF m.state = "fulfilled" THEN m.reaction.onFulfilled
                        ELSE m.reaction.onRejected
             h1 == [h EXCEPT !.microtasks = Tail(@)]
         IN IF handler = NoHandler THEN settle(h1, m.reaction.child, m.state, m.value)
            ELSE settle(runHandler(h1, handler, m.value, call), m.reaction.child,
                        "fulfilled", NoValue)

\* the first job of the microtask queue
runMicrotask(h, call) ==
    LET m == Head(h.microtasks)
        handler == IF m.state = "fulfilled" THEN m.reaction.onFulfilled
                   ELSE m.reaction.onRejected
        h1 == [h EXCEPT !.microtasks = Tail(@)]
    IN IF handler = NoHandler THEN settle(h1, m.reaction.child, m.state, m.value)
       ELSE settle(runHandler(h1, handler, m.value, call), m.reaction.child,
                   "fulfilled", NoValue)

Heap ==
    [texState |-> texState, texListeners |-> texListeners, texImage |-> texImage,
     texDynamic |-> texDynamic, nextTex |-> nextTex, promises |-> promises,
     microtasks |-> microtasks, material |-> material, allRemaining |-> allRemaining,
     rootAdded |-> rootAdded, clipsAdded |-> clipsAdded]

SetHeap(h) ==
    /\ texState' = h.texState /\ texListeners' = h.texListeners
    /\ texImage' = h.texImage /\ texDynamic' = h.texDynamic
    /\ nextTex' = h.nextTex /\ promises' = h.promises
    /\ microtasks' = h.microtasks /\ material' = h.material
    /\ allRemaining' = h.allRemaining
    /\ rootAdded' = h.rootAdded /\ clipsAdded' = h.clipsAdded

\* ------------------------------------------------------------------ actions
InitTracker ==
    /\ opaqueList = <<>> /\ transparentList = <<>> /\ lights = <<>>
    /\ gTexturesList = <<>> /\ gGeometriesList = <<>>
    /\ used = [r \in Resources |-> Undefined]
    /\ gFrameTime = 0 /\ gElapsedTime = 0 /\ frame = 0
    /\ disposeLog = <<>> /\ thrown = FALSE /\ everThrown = FALSE
    /\ refPrev = {} /\ refNow = {} /\ pendingFail = {} /\ retried = {}
    /\ stepLog = <<>> /\ renderSaw = <<>> /\ sweepSaw = <<>> /\ loopSaw = <<>>

InitLoaders ==
    /\ texListeners = [t \in Textures |-> [success |-> <<>>, error |-> <<>>]]
    /\ texDynamic = [t \in Textures |-> FALSE]
    /\ promises = <<>> /\ microtasks = <<>> /\ ltCalls = <<>>
    /\ material = NewMaterial /\ matConfig = EmptyConfig
    /\ loaderState = "idle" /\ modelTextures = <<>> /\ modelPromise = 0
    /\ modelOpts = [waitTextureLoaded |-> FALSE, autoPlayAnimation |-> FALSE]
    /\ allRemaining = 0 /\ rootAdded = 0 /\ clipsAdded = 0

\* the constructor sizes the renderer (lines 62-68)
InitSize(aw, ah, dh, cw, ch) ==
    /\ appWidth = aw /\ appHeight = ah /\ domHeight = dh
    /\ clientWidth = cw /\ clientHeight = ch
    /\ gWidth = Or(aw, cw) /\ gHeight = Or(ah, ch)
    /\ rendererSize = <<Or(aw, cw), Or(ah, ch)>>
    /\ resizeArgs = <<>>

\* the timeline is started (line 75), the scene is empty
InitLife ==
    /\ syncCalls = <<>>
    /\ running = TRUE /\ disposeSteps = <<>> /\ sceneDisposed = {}
    /\ meshAdded = FALSE /\ removed = {}

\* a started application on a div container, no size configured
InitApp == InitLife /\ InitSize(NotGiven, NotGiven, NotGiven, 320, 240)

\* the application after its init callback loaded every texture of the pool from a URL
Init ==
    /\ InitTracker /\ InitLoaders /\ InitApp /\ appLoop = TRUE
    /\ texState = [t \in Textures |-> "pending"]
    /\ texImage = [t \in Textures |-> "loading"]
    /\ nextTex = NumTex

\* the application before any texture was constructed
InitEmpty ==
    /\ InitTracker /\ InitLoaders /\ InitApp /\ appLoop = TRUE
    /\ texState = [t \in Textures |-> "none"]
    /\ texImage = [t \in Textures |-> "none"]
    /\ nextTex = 0

ModelCall == [opts |-> modelOpts, promise |-> modelPromise]

\* the timeline emits a frame event and the handler registered for appNS.loop runs
FrameTick ==
    /\ frame < MaxFrames
    /\ frameHandlers(appLoop) # <<>> /\ running
    /\ microtasks = <<>>
    /\ \E frameTime \in FrameDeltas, thrower \in Resources \cup {NoResource},
          edit \in LoopEdits(opaqueList, transparentList, lights) :
        \E g \in {onFrame([opaqueList |-> opaqueList, transparentList |-> transparentList,
                            lights |-> lights, gTexturesList |-> gTexturesList,
                            gGeometriesList |-> gGeometriesList, used |-> used,
                            newTexturesList |-> <<>>, newGeometriesList |-> <<>>,
                            gFrameTime |-> gFrameTime, gElapsedTime |-> gElapsedTime,
                            disposeLog |-> <<>>, thrown |-> FALSE, stepLog |-> <<>>,
                            renderSaw |-> <<>>, sweepSaw |-> <<>>, loopSaw |-> <<>>],
                           frameTime, edit, thrower)} :
          \E now \in {Referenced(g.opaqueList, g.transparentList, g.lights)} :
           /\ opaqueList' = g.opaqueList
           /\ transparentList' = g.transparentList
           /\ lights' = g.lights
           /\ gTexturesList' = g.gTexturesList
           /\ gGeometriesList' = g.gGeometriesList
           /\ used' = g.used
           /\ gFrameTime' = g.gFrameTime
           /\ gElapsedTime' = g.gElapsedTime
           /\ disposeLog' = g.disposeLog
           /\ thrown' = g.thrown
           /\ everThrown' = (everThrown \/ g.thrown)
           /\ stepLog' = g.stepLog
           /\ renderSaw' = g.renderSaw
           /\ sweepSaw' = g.sweepSaw
           /\ loopSaw' = g.loopSaw
           /\ refPrev' = refNow
           /\ refNow' = now
           /\ retried' = Range(g.disposeLog) \cap pendingFail
           /\ pendingFail' = (pendingFail \ now)
                                \cup (IF g.thrown THEN Range(g.disposeLog) ELSE {})
    /\ frame' = frame + 1
    /\ UNCHANGED <<heapVars, callVars, appVars>>

\* a texture's image load ends (Texture2D's onload / onerror): the state changes
\* and the callbacks registered with texture.success / texture.error run
TextureSuccess(t) ==
    /\ texState[t] = "pending"
    /\ microtasks = <<>>
    /\ \E h \in {trigger([Heap EXCEPT !.texState[t] = "ready"],
                         t, texListeners[t].success, 1)} : SetHeap(h)
    /\ UNCHANGED <<appVars, sceneVars, trackerVars, callVars>>

TextureError(t) ==
    /\ texState[t] = "pending"
    /\ microtasks = <<>>
    /\ \E h \in {trigger([Heap EXCEPT !.texState[t] = "error"],
                         t, texListeners[t].error, 1)} : SetHeap(h)
    /\ UNCHANGED <<appVars, sceneVars, trackerVars, callVars>>

\* a promise job runs (before any other event is handled)
RunMicrotask ==
    /\ microtasks # <<>>
    /\ \E h \in {runMicrotask(Heap, ModelCall)} : SetHeap(h)
    /\ UNCHANGED <<appVars, sceneVars, trackerVars, callVars>>

\* the application calls app.loadTexture(urlOrImg)
LoadTexture(kind) ==
    /\ nextTex < NumTex
    /\ microtasks = <<>>
    /\ \E h \in {loadTexture(Heap, Src(kind))} : SetHeap(h)
    /\ ltCalls' = Append(ltCalls, [source |-> kind, texture |-> <<"texture", nextTex + 1>>,
                                   promise |-> Len(promises) + 1])
    /\ UNCHANGED <<appVars, sceneVars, trackerVars, matConfig, loaderState, modelOpts,
                   modelTextures, modelPromise>>

\* the application calls app.loadTextureSync(urlOrImg)
LoadTextureSync(kind) ==
    /\ nextTex < NumTex
    /\ microtasks = <<>>
    /\ \E h \in {loadTextureSync(Heap, Src(kind))} : SetHeap(h)
    /\ syncCalls' = Append(syncCalls, [source |-> kind, texture |-> <<"texture", nextTex + 1>>])
    /\ UNCHANGED <<appLoop, running, disposeSteps, sceneDisposed, meshAdded, removed, sizeVars>>
    /\ UNCHANGED <<sceneVars, trackerVars, callVars>>

\* the application calls app.createMaterial(cfg)
CreateMaterial(cfg) ==
    /\ ~material.created
    /\ microtasks = <<>>
    /\ \E h \in {createMaterial(Heap, cfg)} : SetHeap(h)
    /\ matConfig' = configTransparent(cfg)
    /\ UNCHANGED <<appVars, sceneVars, trackerVars, ltCalls, loaderState, modelOpts,
                   modelTextures, modelPromise>>

\* the textures the GLTF loader creates and starts loading for a model
loaderTextures(h, n) ==
    [h EXCEPT !.nextTex = @ + n,
              !.texState = [t \in Textures |->
                              IF t[2] \in (h.nextTex + 1)..(h.nextTex + n) THEN "pending" ELSE @[t]],
              !.texImage = [t \in Textures |->
                              IF t[2] \in (h.nextTex + 1)..(h.nextTex + n) THEN "loading" ELSE @[t]]]

\* the application calls app.loadModel(url, opts) for a model with n textures
LoadModel(opts, n) ==
    /\ loaderState = "idle"
    /\ microtasks = <<>>
    /\ nextTex + n <= NumTex
    /\ \E h \in {loaderTextures(newPromise(Heap), n)} : SetHeap(h)
    /\ loaderState' = "loading"
    /\ modelOpts' = opts
    /\ modelPromise' = Len(promises) + 1
    /\ modelTextures' = [i \in 1..n |-> <<"texture", nextTex + i>>]
    /\ UNCHANGED <<appVars, sceneVars, trackerVars, ltCalls, matConfig>>

\* the GLTF loader triggers success: the callback of lines 509-530 runs
LoaderSuccess ==
    /\ loaderState = "loading"
    /\ microtasks = <<>>
    /\ \E h \in {onLoaderSuccess(Heap, ModelCall, modelTextures)} : SetHeap(h)
    /\ loaderState' = "success"
    /\ UNCHANGED <<appVars, sceneVars, trackerVars, ltCalls, matConfig, modelOpts, modelTextures,
                   modelPromise>>

\* the GLTF loader triggers error: the callback of lines 531-533 runs
LoaderError ==
    /\ loaderState = "loading"
    /\ microtasks = <<>>
    /\ \E h \in {onLoaderError(Heap, ModelCall)} : SetHeap(h)
    /\ loaderState' = "error"
    /\ UNCHANGED <<appVars, sceneVars, trackerVars, ltCalls, matConfig, modelOpts, modelTextures,
                   modelPromise>>

\* z: the sizes the closure of resize reads and writes (lines 120-124)
resize(z, width, height) ==
    LET w == Or(width, Or(z.appWidth, z.clientWidth))
        h == Or(height, Or(z.domHeight, z.clientHeight))
    IN [z EXCEPT !.gWidth = w, !.gHeight = h, !.rendererSize = <<w, h>>]

\* the application calls app.resize(width, height)
Resize(width, height) ==
    /\ \E z \in {resize([appWidth |-> appWidth, domHeight |-> domHeight,
                          clientWidth |-> clientWidth, clientHeight |-> clientHeight,
                          gWidth |-> gWidth, gHeight |-> gHeight,
                          rendererSize |-> rendererSize], width, height)} :
          /\ gWidth' = z.gWidth /\ gHeight' = z.gHeight
          /\ rendererSize' = z.rendererSize
    /\ resizeArgs' = <<width, height>>
    /\ UNCHANGED <<appWidth, appHeight, domHeight, clientWidth, clientHeight>>
    /\ UNCHANGED <<syncCalls, appLoop, running, disposeSteps, sceneDisposed, meshAdded, removed>>
    /\ UNCHANGED <<sceneVars, trackerVars, heapVars, callVars>>

\* ------------------------------------------- the application as a whole
\* the geometry createCube builds for its mesh, and the one of the loaded model
MeshGeometry == <<"geometry", 1>>
ModelGeometry == <<"geometry", NumGeo>>
UniformOrder == SelectSeq(ConfigKeys, LAMBDA k : k \in UniformNames)
UniformValue(v) == IF v \in Textures THEN UTex(v) ELSE UNum

\* the mesh of createCube: its material's uniforms are read when the queue is walked
MeshRenderable ==
    [geometry |-> MeshGeometry,
     uniforms |-> [i \in DOMAIN UniformOrder |-> UniformValue(material.uniforms[UniformOrder[i]])]]
\* the mesh under the model's root node, one texture uniform per texture of the model
ModelRenderable ==
    [geometry |-> ModelGeometry,
     uniforms |-> [i \in DOMAIN modelTextures |-> UTex(modelTextures[i])]]

\* the nodes in the scene, and the opaque queue the render call builds from them
SceneNodes(rm) ==
    ((IF meshAdded THEN {"mesh"} ELSE {}) \cup (IF rootAdded > 0 THEN {"model"} ELSE {})) \ rm
SceneQueue(nodes) ==
    (IF "mesh" \in nodes THEN <<MeshRenderable>> ELSE <<>>)
        \o (IF "model" \in nodes THEN <<ModelRenderable>> ELSE <<>>)

\* the configs createCube is called with
CubeConfigs == {cfg \in Configs : cfg["color"] = Absent /\ cfg["transparent"] = Absent}

\* the application calls app.createCube(size, cfg): createMaterial(cfg), scene.add(mesh)
CreateCube(cfg) ==
    /\ ~material.created
    /\ microtasks = <<>>
    /\ nextTex + Cardinality({k \in UniformNames : IsTextureEntry(cfg, k)}) <= NumTex
    /\ \E h \in {createMaterial(Heap, cfg)} : SetHeap(h)
    /\ matConfig' = configTransparent(cfg)
    /\ meshAdded' = TRUE
    /\ UNCHANGED <<syncCalls, appLoop, running, disposeSteps, sceneDisposed, removed, sizeVars>>
    /\ UNCHANGED <<sceneVars, trackerVars, ltCalls, loaderState, modelOpts,
                   modelTextures, modelPromise>>

\* a frame event while the handler is registered; the loop callback may take a
\* node out of the scene, and the render call rebuilds the queue from the scene
AppFrameTick ==
    /\ frame < MaxAppFrames
    /\ frameHandlers(appLoop) # <<>> /\ running
    /\ microtasks = <<>>
    /\ \E frameTime \in FrameDeltas, thrower \in Textures \cup {NoResource},
          rm \in {removed} \cup {removed \cup {n} : n \in SceneNodes(removed)} :
        \E g \in {onFrame([opaqueList |-> opaqueList, transparentList |-> transparentList,
                            lights |-> lights, gTexturesList |-> gTexturesList,
                            gGeometriesList |-> gGeometriesList, used |-> used,
                            newTexturesList |-> <<>>, newGeometriesList |-> <<>>,
                            gFrameTime |-> gFrameTime, gElapsedTime |-> gElapsedTime,
                            disposeLog |-> <<>>, thrown |-> FALSE, stepLog |-> <<>>,
                            renderSaw |-> <<>>, sweepSaw |-> <<>>, loopSaw |-> <<>>],
                           frameTime,
                           [opaqueList |-> SceneQueue(SceneNodes(rm)),
                            transparentList |-> <<>>, lights |-> <<>>],
                           thrower)} :
          \E now \in {Referenced(g.opaqueList, g.transparentList, g.lights)} :
           /\ opaqueList' = g.opaqueList
           /\ transparentList' = g.transparentList
           /\ lights' = g.lights
           /\ gTexturesList' = g.gTexturesList
           /\ gGeometriesList' = g.gGeometriesList
           /\ used' = g.used
           /\ gFrameTime' = g.gFrameTime
           /\ gElapsedTime' = g.gElapsedTime
           /\ disposeLog' = g.disposeLog
           /\ thrown' = g.thrown
           /\ everThrown' = (everThrown \/ g.thrown)
           /\ stepLog' = g.stepLog
           /\ renderSaw' = g.renderSaw
           /\ sweepSaw' = g.sweepSaw
           /\ loopSaw' = g.loopSaw
           /\ refPrev' = refNow
           /\ refNow' = now
           /\ retried' = Range(g.disposeLog) \cap pendingFail
           /\ pendingFail' = (pendingFail \ now)
                                \cup (IF g.thrown THEN Range(g.disposeLog) ELSE {})
           /\ removed' = rm
    /\ frame' = frame + 1
    /\ UNCHANGED <<syncCalls, appLoop, running, disposeSteps, sceneDisposed, meshAdded, sizeVars>>
    /\ UNCHANGED <<heapVars, callVars>>

\* a frame event of an application that has no loop callback: nothing listens
FrameNoHandler ==
    /\ frame < MaxAppFrames
    /\ frameHandlers(appLoop) = <<>> /\ running
    /\ microtasks = <<>>
    /\ frame' = frame + 1
    /\ UNCHANGED <<gTexturesList, gGeometriesList, used, gFrameTime, gElapsedTime,
                   disposeLog, thrown, everThrown, refPrev, refNow, pendingFail, retried,
                   stepLog, renderSaw, sweepSaw, loopSaw>>
    /\ UNCHANGED <<sceneVars, heapVars, callVars, appVars>>

\* the application calls app.dispose() (lines 126-133), between two frames
Dispose ==
    /\ disposeSteps = <<>>
    /\ microtasks = <<>>
    /\ \E hasCallback \in BOOLEAN :
        \E a \in {dispose([running |-> running, disposeSteps |-> disposeSteps,
                            sceneDisposed |-> sceneDisposed], hasCallback,
                           Referenced(SceneQueue(SceneNodes(removed)), <<>>, <<>>))} :
          /\ running' = a.running
          /\ disposeSteps' = a.disposeSteps
          /\ sceneDisposed' = a.sceneDisposed
    /\ UNCHANGED <<syncCalls, appLoop, meshAdded, removed, sizeVars>>
    /\ UNCHANGED <<sceneVars, trackerVars, heapVars, callVars>>

\* an application with or without a loop callback, before its first frame
InitAny ==
    /\ InitTracker /\ InitLoaders /\ InitApp /\ appLoop \in BOOLEAN
    /\ texState = [t \in Textures |-> "none"]
    /\ texImage = [t \in Textures |-> "none"]
    /\ nextTex = 0

NextApp ==
    \/ \E cfg \in CubeConfigs : CreateCube(cfg)
    \/ \E opts \in [waitTextureLoaded : BOOLEAN, autoPlayAnimation : {FALSE}],
          n \in 0..NumTex : LoadModel(opts, n)
    \/ LoaderSuccess
    \/ LoaderError
    \/ \E t \in Textures : TextureSuccess(t)
    \/ \E t \in Textures : TextureError(t)
    \/ RunMicrotask
    \/ AppFrameTick
    \/ FrameNoHandler
    \/ Dispose

SpecApp == InitAny /\ [][NextApp]_vars

Next ==
    \/ FrameTick
    \/ \E t \in Textures : TextureSuccess(t)
    \/ \E t \in Textures : TextureError(t)

Spec == Init /\ [][Next]_vars

NextTexture ==
    \/ \E kind \in SourceKinds : LoadTexture(kind)
    \/ \E kind \in SourceKinds : LoadTextureSync(kind)
    \/ \E t \in Textures : TextureSuccess(t)
    \/ \E t \in Textures : TextureError(t)

\* an application on a div or canvas container, with or without a configured size
InitResize ==
    /\ InitTracker /\ InitLoaders /\ InitLife /\ appLoop = TRUE
    /\ texState = [t \in Textures |-> "none"]
    /\ texImage = [t \in Textures |-> "none"]
    /\ nextTex = 0
    /\ \E aw \in {NotGiven, 800}, ah \in {NotGiven, 600}, dh \in {NotGiven, 150},
          cw \in {320, 640}, ch \in {240, 480} : InitSize(aw, ah, dh, cw, ch)

NextResize == \E width \in {NotGiven, 1024}, height \in {NotGiven, 768} : Resize(width, height)

SpecResize == InitResize /\ [][NextResize]_vars

SpecTexture == InitEmpty /\ [][NextTexture]_vars

NextMaterial ==
    \/ \E cfg \in Configs : CreateMaterial(cfg)
    \/ \E t \in Textures : TextureSuccess(t)
    \/ \E t \in Textures : TextureError(t)
    \/ RunMicrotask

SpecMaterial == InitEmpty /\ [][NextMaterial]_vars

ModelOptions == [waitTextureLoaded : BOOLEAN, autoPlayAnimation : BOOLEAN]

NextModel ==
    \/ \E opts \in ModelOptions, n \in 0..NumTex : LoadModel(opts, n)
    \/ LoaderSuccess
    \/ LoaderError
    \/ \E t \in Textures : TextureSuccess(t)
    \/ \E t \in Textures : TextureError(t)
    \/ RunMicrotask

SpecModel == InitEmpty /\ [][NextModel]_vars

\* ------------------------------------------------------------------- claims
\* the order of the handler's steps (lines 144-162)
FullSteps == <<"loop", "render", "markUsed", "collect", "dispose", "swap">>
QueueGeometries(q) == [i \in DOMAIN q |-> q[i].geometry]
Cubemaps(li) == SelectSeq([k \in DOMAIN li |-> li[k].cubemap], LAMBDA x : x # NoResource)
Suffix(s, n) == SubSeq(s, Len(s) - n + 1, Len(s))

\* C1: a resource referenced at the sweeps of frames a..b and at no other is
\* disposed exactly once, in the sweep of the first frame after b, and never
\* earlier, however many renderables or uniforms referenced it: in every frame
\* (no dispose call having thrown) each resource is disposed once if it was
\* referenced at the previous sweep and is not at this one, and not at all otherwise.
C1_DisposedExactlyOnce ==
    (frame > 0 /\ ~everThrown) =>
        \A r \in Resources :
            Count(r, disposeLog) = (IF r \in refPrev \ refNow THEN 1 ELSE 0)

\* C2: a texture whose load is pending or failed and that the queues or a
\* light's cubemap reference at a sweep is not disposed by that sweep.
C2_NoPrematureDisposal ==
    \A t \in Textures :
        (texState[t] \in {"pending", "error"} /\ t \in refNow) => t \notin Range(disposeLog)

C2_Witness ==
    \E t \in Textures :
        /\ texState[t] = "pending" /\ t \in refPrev /\ t \in refNow
        /\ disposeLog # <<>>

\* C3: a resource referenced at two consecutive sweeps (also when it moved to
\* another renderable or queue in between) is not disposed by the second, and
\* a resource of the new snapshot is never among the ones passed to dispose.
C3_ReReferenceNeverDisposed ==
    /\ \A r \in refPrev \cap refNow : Count(r, disposeLog) = 0
    /\ ~thrown =>
        \A r \in Range(gTexturesList) \cup Range(gGeometriesList) : r \notin Range(disposeLog)

C3_Witness ==
    \E t \in Textures :
        /\ t \in refPrev /\ t \in refNow
        /\ opaqueList = <<>> /\ transparentList # <<>>
        /\ disposeLog # <<>> /\ ~thrown

\* C4: one frame runs the loop callback, then render, then the sweep (reset,
\* traverse opaque then transparent then lights, dispose, replace the
\* snapshot), and the sweep reads the queues the render call saw.
C4_FrameOrder ==
    frame > 0 =>
        /\ stepLog = (IF thrown THEN SubSeq(FullSteps, 1, 5) ELSE FullSteps)
        /\ renderSaw = <<opaqueList, transparentList, lights>>
        /\ sweepSaw = renderSaw
        /\ ~thrown =>
            /\ gGeometriesList = QueueGeometries(opaqueList) \o QueueGeometries(transparentList)
            /\ Len(gTexturesList) >= Len(Cubemaps(lights))
            /\ Suffix(gTexturesList, Len(Cubemaps(lights))) = Cubemaps(lights)

C4_Witness ==
    /\ frame >= 2 /\ ~thrown
    /\ opaqueList # <<>> /\ transparentList # <<>>
    /\ Cubemaps(lights) # <<>>

\* C10: a dispose call that throws ends the frame handler, and no later frame
\* calls dispose again on the resource whose dispose threw, nor on one that the
\* failed sweep had already disposed.
C10_NoRetry ==
    /\ thrown => stepLog = SubSeq(FullSteps, 1, 5)
    /\ retried = {}

\* the texture createMaterial loads for a key: textures are constructed in key order
TextureOfKey(cfg, key) ==
    <<"texture", Cardinality({i \in DOMAIN ConfigKeys :
                                /\ IsTextureEntry(cfg, ConfigKeys[i])
                                /\ \E j \in DOMAIN ConfigKeys : ConfigKeys[j] = key /\ i <= j})>>
\* a promise that was rejected and has no handler once the promise jobs have run
UnhandledRejections ==
    {p \in DOMAIN promises : promises[p].state = "rejected" /\ ~promises[p].handled}

C6_RejectsIffLoaderError ==
    modelPromise # 0 =>
        ((promises[modelPromise].state = "rejected") = (loaderState = "error"))

C6_Witness ==
    /\ modelPromise # 0 /\ loaderState = "success" /\ modelOpts.waitTextureLoaded
    /\ \E t \in Range(modelTextures) : texState[t] = "error"
    /\ \A t \in Range(modelTextures) : texState[t] # "pending"
    /\ microtasks = <<>>
    /\ promises[modelPromise].state = "fulfilled"

\* C7: the promise of a loadTexture call is fulfilled with the texture that
\* loadTextureSync constructed for the call, at once when the texture is
\* renderable and otherwise when its load is ready; it is rejected when the load
\* fails; resolve or reject is called at most once, and never while the load is pending.
C7_LoadTexturePromise ==
    \A i \in DOMAIN ltCalls :
        LET p == promises[ltCalls[i].promise]
            t == ltCalls[i].texture
        IN /\ p.calls <= 1
           /\ p.state = "fulfilled" => (p.value = t /\ texState[t] = "ready")
           /\ p.state = "rejected" => texState[t] = "error"
           /\ texState[t] = "ready" => p.state = "fulfilled"
           /\ texState[t] = "error" => p.state = "rejected"
           /\ isImageLikeElement(Src(ltCalls[i].source)) => p.state = "fulfilled"

C7_Witness ==
    \E i, j \in DOMAIN ltCalls :
        /\ ltCalls[i].source = "string" /\ promises[ltCalls[i].promise].state = "fulfilled"
        /\ ltCalls[j].source = "string" /\ promises[ltCalls[j].promise].state = "rejected"

\* C8: createMaterial returns with every non-texture uniform of the config set;
\* a texture-typed (or image-like valued) uniform is not yet assigned on return,
\* is assigned only with a texture whose load succeeded, keeps its pre-load value
\* when the load failed, and a failed load leaves no rejected promise without a handler.
C8_MaterialUniforms ==
    material.created =>
        /\ \A k \in UniformNames :
            IF IsTextureEntry(matConfig, k)
            THEN /\ material.atReturn[k] = DefaultValue
                 /\ material.uniforms[k] # DefaultValue =>
                        /\ material.uniforms[k] = TextureOfKey(matConfig, k)
                        /\ texState[material.uniforms[k]] = "ready"
                 /\ texState[TextureOfKey(matConfig, k)] = "error" =>
                        material.uniforms[k] = DefaultValue
            ELSE matConfig[k] # Absent =>
                    (material.atReturn[k] = matConfig[k] /\ material.uniforms[k] = matConfig[k])
        /\ microtasks = <<>> => UnhandledRejections = {}

\* C9: a material created from a config with transparent: true has depthMask
\* false and transparent true; without that entry both keep their defaults.
C9_TransparentMaterial ==
    material.created =>
        IF matConfig["transparent"] = Src("true")
        THEN material.depthMask = FALSE /\ material.transparent = TRUE
        ELSE material.depthMask = TRUE /\ material.transparent = FALSE

\* C11: without waitTextureLoaded the loader's success callback itself adds the
\* root node (once), registers every clip exactly when autoPlayAnimation is set
\* and resolves the promise with the loader's result, whatever the load-state
\* of the model's textures; nothing of it happens before the callback, and
\* textures settling afterwards change none of it.
C11_ImmediateInsertion ==
    (modelPromise # 0 /\ ~modelOpts.waitTextureLoaded) =>
        /\ rootAdded = (IF loaderState = "success" THEN 1 ELSE 0)
        /\ clipsAdded = (IF loaderState = "success" /\ modelOpts.autoPlayAnimation
                         THEN NumClips ELSE 0)
        /\ (promises[modelPromise].state = "fulfilled") = (loaderState = "success")
        /\ loaderState = "success" =>
            /\ promises[modelPromise].value = ModelResult
            /\ promises[modelPromise].calls = 1

C11_Witness ==
    /\ modelPromise # 0 /\ ~modelOpts.waitTextureLoaded /\ ~modelOpts.autoPlayAnimation
    /\ loaderState = "success" /\ rootAdded = 1 /\ clipsAdded = 0
    /\ \E t1, t2 \in Range(modelTextures) : texState[t1] = "pending" /\ texState[t2] = "error"

\* C12: after resize(width, height) the renderer has the given width and the
\* given height, and for each of the two that was not given the container's
\* clientWidth / clientHeight: one rule for both.
C12_ResizePrecedence ==
    resizeArgs # <<>> =>
        rendererSize = <<Or(resizeArgs[1], clientWidth), Or(resizeArgs[2], clientHeight)>>

\* the resources of the nodes in the scene
SceneResources == Referenced(SceneQueue(SceneNodes(removed)), <<>>, <<>>)

\* C13: dispose() runs the appNS.dispose callback if there is one, stops the
\* timeline, has the renderer dispose the scene's resources and clears the
\* container; from then on no frame event runs the handler: no loop callback,
\* no render, no sweep, so the tracker disposes nothing that disposeScene released.
C13_DisposeStopsFrames ==
    [][disposeSteps' # <<>> =>
        /\ ~running'
        /\ disposeSteps' \in {<<"stop", "disposeScene", "clear">>,
                              <<"appNS.dispose", "stop", "disposeScene", "clear">>}
        /\ disposeSteps = <<>> => sceneDisposed' = SceneResources
        /\ disposeSteps # <<>> =>
             UNCHANGED <<frame, stepLog, loopSaw, renderSaw, sweepSaw, disposeLog, used,
                         gTexturesList, gGeometriesList, gFrameTime, gElapsedTime,
                         sceneDisposed>>]_vars

C13_Witness ==
    /\ disposeSteps # <<>> /\ appLoop
    /\ frame >= 1 /\ frame < MaxAppFrames
    /\ sceneDisposed \cap Textures # {}
    /\ sceneDisposed \subseteq Range(gTexturesList) \cup Range(gGeometriesList)
    /\ \E t \in sceneDisposed \cap Textures : texState[t] = "error"

\* C14: loadTextureSync with an image, canvas or video returns, in the call
\* itself, a texture that has the source attached, is renderable, and is
\* dynamic exactly for a video; with a URL it returns a texture whose load has
\* started and that is pending until the load ends, then ready or failed.
C14_ImmediateUsability ==
    /\ \A i \in DOMAIN syncCalls :
        LET t == syncCalls[i].texture
            source == syncCalls[i].source
        IN /\ isImageLikeElement(Src(source)) =>
                /\ texImage[t] = source
                /\ isRenderable(Heap, t)
                /\ texDynamic[t] = (source = "video")
           /\ source = "string" =>
                /\ texImage[t] = "loading" /\ ~texDynamic[t]
                /\ texState[t] \in {"pending", "ready", "error"}
    /\ microtasks = <<>>

C14_Witness ==
    \E i, j \in DOMAIN syncCalls :
        /\ syncCalls[i].source = "video" /\ texDynamic[syncCalls[i].texture]
        /\ syncCalls[j].source = "string" /\ texState[syncCalls[j].texture] = "pending"

\* the texture and the loadTexture promise createMaterial made for a key
MaterialTexture(k) == <<"texture", material.base + TextureOfKey(matConfig, k)[2]>>
MaterialPromise(k) == material.promiseBase + 2 * TextureOfKey(matConfig, k)[2] - 1

C16_SnapshotOncePerResource ==
    (frame > 0 /\ ~thrown) =>
        /\ Range(gTexturesList) = refNow \cap Textures
        /\ Range(gGeometriesList) = refNow \cap Geometries
        /\ \A r \in Resources : Count(r, gTexturesList) <= 1 /\ Count(r, gGeometriesList) <= 1

\* the resources of the snapshot the last completed sweep left
Snapshot == Range(gTexturesList) \cup Range(gGeometriesList)

\* C17: whatever continuations ran between the frames, a sweep calls dispose
\* only on a resource of the snapshot the last completed sweep left that this
\* frame's traversal did not visit; the traversal visits every resource the
\* scene references when it runs, whichever continuation attached it, and a
\* completed sweep leaves exactly those as the snapshot; a continuation itself
\* disposes nothing and leaves the snapshot alone, so a resource that never
\* was in a snapshot is never disposed by the tracker.
C17_SweepOnlyTracked ==
    [][IF frame' # frame /\ appLoop
       THEN /\ Range(disposeLog') \subseteq Snapshot \ refNow'
            /\ refNow' = SceneResources'
            /\ ~thrown' => Snapshot' = refNow'
       ELSE /\ disposeLog' = disposeLog
            /\ Snapshot' = Snapshot /\ used' = used]_vars

C17_Witness ==
    /\ frame = 2 /\ ~everThrown /\ running
    /\ \E k \in UniformNames :
        /\ matConfig[k] = Src("string")
        /\ material.uniforms[k] \in Range(disposeLog)
    /\ \E t \in Textures : texState[t] = "pending" /\ t \notin Snapshot
    /\ rootAdded = 1 /\ ModelGeometry \in Snapshot

\* C18: under waitTextureLoaded, once the loader has reported success and every
\* texture of the model has settled, ready or failed, before or after that
\* report, the root node gets added and the promise resolved: when no promise
\* job is left to run (and no event is left to come) both have happened.
C18_JoinCompletes ==
    (/\ modelPromise # 0 /\ modelOpts.waitTextureLoaded
     /\ loaderState = "success"
     /\ \A t \in Range(modelTextures) : texState[t] \in {"ready", "error"}
     /\ microtasks = <<>>) =>
        /\ rootAdded = 1
        /\ promises[modelPromise].state = "fulfilled"

\* C19: with a loop callback every frame event sets frameTime to the event's
\* delta and adds it to elapsedTime, then runs the callback (which reads the
\* new values), the render call and the sweep; with no loop callback a frame
\* event changes nothing: nothing is rendered or swept, no resource is ever
\* disposed by the tracker, and frameTime and elapsedTime stay 0.
C19_HandlerOnlyWithLoop ==
    [][/\ (frame' # frame /\ appLoop) =>
            /\ gFrameTime' \in FrameDeltas
            /\ gElapsedTime' = gElapsedTime + gFrameTime'
            /\ loopSaw' = <<gFrameTime', gElapsedTime'>>
            /\ stepLog' = (IF thrown' THEN SubSeq(FullSteps, 1, 5) ELSE FullSteps)
            /\ renderSaw' = <<opaqueList', transparentList', lights'>>
            /\ sweepSaw' = renderSaw'
       /\ ~appLoop' =>
            /\ gFrameTime' = 0 /\ gElapsedTime' = 0
            /\ stepLog' = <<>> /\ renderSaw' = <<>> /\ sweepSaw' = <<>> /\ loopSaw' = <<>>
            /\ disposeLog' = <<>> /\ Snapshot' = {}
            /\ \A r \in Resources : used'[r] = Undefined]_vars

C19_Witness ==
    /\ ~appLoop /\ frame >= 2 /\ running
    /\ meshAdded /\ rootAdded = 1
    /\ SceneResources \cap Textures # {}
    /\ gElapsedTime = 0

\* C20: a texture-typed uniform given a value that is neither a string nor
\* image-like makes createMaterial call loadTexture with it: no load is started,
\* the texture is not renderable, the promise loadTexture returned is never
\* resolved nor rejected, and the uniform is never assigned.
C20_NeverSettles ==
    material.created =>
        \A k \in {n \in UniformNames : IsTextureEntry(matConfig, n)} :
            (matConfig[k][1] \notin {"string", "image", "canvas", "video"}) =>
                /\ texImage[MaterialTexture(k)] = "none"
                /\ ~isRenderable(Heap, MaterialTexture(k))
                /\ promises[MaterialPromise(k)].state = "pending"
                /\ promises[MaterialPromise(k)].calls = 0
                /\ material.uniforms[k] = DefaultValue

C20_Witness ==
    /\ material.created /\ microtasks = <<>>
    /\ matConfig["diffuseMap"] = Src("other")
    /\ matConfig["normalMap"] = Src("string")
    /\ material.uniforms["normalMap"] = MaterialTexture("normalMap")

====
